---- MODULE Spec2Model ----
(***************************************************************************)
(* Model of the file-based channel between the YouBot controller           *)
(* (mcp_bridge.py, class MCPBridge: the producer) and the MCP tool server  *)
(* (webots_youbot_mcp_server.py: the consumer).                            *)
(*                                                                         *)
(* The two processes share only files.  A file is modelled by a record     *)
(*   [kind, doc, id]                                                       *)
(* kind = "absent"     the file does not exist                             *)
(*        "torn"       the file exists but json.load fails on it: it was   *)
(*                     truncated by open(..., 'w') and the document is not *)
(*                     (yet, or not completely) written                    *)
(*        "nonobject"  valid JSON that is not an object ([], 3, "x", null) *)
(*        "object"     a complete JSON object; doc is the mapping          *)
(* id is history: the number of the write that produced the content        *)
(* (0 when the content was not produced by _write_command).                *)
(* Specification Spec is the command channel, SpecStatus the status        *)
(* channel.                                                                *)
(***************************************************************************)
EXTENDS Naturals, Sequences, FiniteSets, TLC

VARIABLES
    \* ---- producer memory (MCPBridge fields)
    isSupervisor,           \* self._is_supervisor
    lastCommandTimestamp,   \* self._last_command_timestamp
    stepCounter,            \* self._step_counter
    frameCounter,           \* self._frame_counter
    \* ---- files
    commandsFile,           \* data/commands.json
    statusFile,             \* data/status.json
    gridFile,               \* data/grid/grid.txt
    \* ---- consumer: position inside _write_command
    sender,
    \* ---- producer: position inside process_commands, and the result so far
    receiver,
    \* ---- producer: position inside update_status
    publisher,
    \* ---- observations of the last calls
    lastResult,             \* what the process_commands() call that has just
                            \* returned did
    lastSend,               \* what the last _write_command() returned
    lastPublish,            \* what the last update_status() did
    lastRead,               \* _load_status: between exists() and open(), or what
                            \* the call that has just returned gave
    \* ---- history
    sends,                  \* number of _write_command calls started
    externalWrites,         \* number of command files written by another party
    dispatched,             \* per sent command: claims over all lifetimes
    dispatchedLife,         \* per sent command: claims by this producer instance
    recvSinceWrite,         \* receives by this instance since the file changed
    superseded,             \* the last sent command whose complete document was
                            \* overwritten (0: none)
    tornSeen,               \* the pending send this instance has read mid-write
                            \* (0: none)
    restarts,               \* producer restarts so far
    restartCause,           \* "reset": the last restart followed a simulationReset
                            \* that the command handler had just performed
    clock,                  \* producer ticks so far (update_status calls)
    writesLife,             \* this producer instance's status writes: those that
                            \* opened the file, and those whose open failed
    written,                \* every document a publish wrote completely
    \* ---- process and file system
    constructed,            \* MCPBridge.__init__ has run
    dirs,                   \* the directories that exist
    pilAvailable,           \* "from PIL import Image" succeeds in this environment
    \* ---- camera frames
    cameraDir,              \* the files in data/camera
    pusher,                 \* position inside save_camera_frame
    framesSaved,            \* frame files written since the directory was empty
    frameFaults,            \* a frame write or an unlink has failed, or a push was
                            \* cut short by a restart
    capacities,             \* the max_frames values passed so far
    \* ---- sensor summaries
    lastCall,               \* the last collect_* call: function, input and result
    \* ---- optional add-ons
    detector,               \* the ReloadDetector and the record of its checks
    monitor                 \* the BehaviorMonitor run in progress and its report

commandVars == <<commandsFile, lastCommandTimestamp, sender, receiver, lastResult, lastSend,
                 sends, externalWrites, dispatched, dispatchedLife,
                 recvSinceWrite, superseded, tornSeen>>
statusVars  == <<statusFile, gridFile, stepCounter, publisher, lastPublish, lastRead,
                 clock, writesLife, written>>
frameVars == <<frameCounter, constructed, dirs, pilAvailable, cameraDir, pusher,
               framesSaved, frameFaults, capacities>>
addonVars == <<detector, monitor>>
vars == <<isSupervisor, lastCall, restarts, restartCause, commandVars, statusVars,
          frameVars, addonVars>>

----------------------------------------------------------------------------
(* Bounds of the model *)

MaxSends == 2
MaxClock == 2
MaxRestarts == 1
MaxExternal == 1
MaxSteps == 10
MaxFrames == 3
MaxCapacity == 2
MaxOwnerSends == 1
MaxOwnerTicks == 5
MaxReturns == 2
MaxGridSize == 3
MaxScale == 3
MaxChecks == 4
MaxSamples == 5

----------------------------------------------------------------------------
(* Python values *)

\* Python's None, as dict.get() returns it for a missing key.
NoneVal == "<None>"

\* The empty mapping.
EmptyDoc == [k \in {} |-> ""]

\* dict.get(key)
Get(doc, key) == IF key \in DOMAIN doc THEN doc[key] ELSE NoneVal

\* dict.update(other) / d[key] = value : keys of other win.
Update(doc, other) ==
    [k \in DOMAIN doc \cup DOMAIN other |-> IF k \in DOMAIN other THEN other[k] ELSE doc[k]]

\* datetime.now().isoformat() of clock reading n.
IsoFormat(n) == "2026-01-01T00:00:00.00000" \o ToString(n)

AbsentFile == [kind |-> "absent", doc |-> EmptyDoc, id |-> 0]
TornFile(n) == [kind |-> "torn", doc |-> EmptyDoc, id |-> n]
ObjectFile(d, n) == [kind |-> "object", doc |-> d, id |-> n]
NonObjectFile == [kind |-> "nonobject", doc |-> EmptyDoc, id |-> 0]

\* A parser that accepts whatever the file holds.
JsonLoadsLenient(file) == file.kind # "absent"

\* json.load(f): succeeds exactly on complete JSON text.
JsonLoads(file) == file.kind \in {"object", "nonobject"}

\* lastResult and lastSend describe the call that has just returned; any other
\* step clears them.
NoResult ==
    [ret |-> "never", handler |-> "none", ops |-> <<>>, logs |-> <<>>,
     doc |-> EmptyDoc, id |-> 0, fileRead |-> AbsentFile,
     fileAtDispatch |-> AbsentFile, lastBefore |-> NoneVal,
     lastAfter |-> NoneVal, calls |-> 0, superseded |-> 0]

\* process_commands is not running.
ReceiverIdle == [pc |-> "idle", out |-> NoResult]
NoSend == [ret |-> "never", id |-> 0]

----------------------------------------------------------------------------
(* Consumer: the tools that send commands, and _write_command *)

\* SimulationCommandInput.command: pattern ^(pause|resume|reset|step)$
SimulationCommands == {"pause", "resume", "reset", "step"}

\* ScreenshotInput.save_path: None, the empty string or a custom name.
SavePaths == {NoneVal, "", "view"}

\* webots_take_screenshot: the command it builds.  "params.save_path or ..."
\* takes the default for None and for the empty string.
ScreenshotCommand(save_path) ==
    [action |-> "screenshot",
     filename |-> IF save_path = NoneVal \/ save_path = ""
                  THEN "screenshot_%Y%m%d_%H%M%S" ELSE save_path]

\* webots_simulation_control: the command it builds.
SimulationControlCommand(command) ==
    [action |-> "simulation_control", command |-> command]

ToolCommands ==
    {ScreenshotCommand(p) : p \in SavePaths}
        \cup {SimulationControlCommand(c) : c \in SimulationCommands}

\* cmd["timestamp"] = datetime.now().isoformat()
Stamp(cmd, n) == Update(cmd, [timestamp |-> IsoFormat(n)])

\* A variant of Overwrite that keeps a complete document already in the file
\* (a mailbox that does not clobber an unread command).
OverwriteUnlessPending(file, new) == IF file.kind = "object" THEN file ELSE new

\* open(path, 'w') followed by a write: what the file holds afterwards does not
\* depend on what it held before.
Overwrite(file, new) == new

\* _write_command, first half: stamp the command and open the file for writing.
\* The open either fails (the function returns False, the file is untouched) or
\* truncates the file.
SendOpen(cmd, n, ok) ==
    /\ sender.pc = "idle"
    /\ sends < MaxSends
    /\ IF ok
       THEN /\ sends' = sends + 1
            /\ commandsFile' = Overwrite(commandsFile, TornFile(sends + 1))
            /\ sender' = [pc |-> "writing", doc |-> Stamp(cmd, n), id |-> sends + 1]
            /\ recvSinceWrite' = 0
            /\ tornSeen' = 0
            /\ lastSend' = NoSend
            /\ superseded' = IF commandsFile.kind = "object" /\ commandsFile.id > 0
                             THEN commandsFile.id ELSE superseded
       ELSE /\ lastSend' = [ret |-> "False", id |-> 0]
            /\ UNCHANGED <<commandsFile, sender, sends, recvSinceWrite, superseded,
                           tornSeen>>
    /\ lastResult' = NoResult
    /\ UNCHANGED <<lastCommandTimestamp, receiver, externalWrites, dispatched,
                   dispatchedLife>>
    /\ UNCHANGED <<addonVars, isSupervisor, lastCall, frameVars, restarts, restartCause, statusVars>>

\* _write_command, second half: json.dump and close.  Either the document is
\* written (True) or the write raises (False) and the file stays truncated.
SendDump(ok) ==
    /\ sender.pc = "writing"
    /\ sender' = [pc |-> "idle", doc |-> EmptyDoc, id |-> 0]
    /\ lastSend' = [ret |-> IF ok THEN "True" ELSE "False", id |-> sender.id]
    /\ IF ok
       THEN /\ commandsFile' = Overwrite(commandsFile, ObjectFile(sender.doc, sender.id))
            /\ recvSinceWrite' = 0
       ELSE UNCHANGED <<commandsFile, recvSinceWrite>>
    /\ lastResult' = NoResult
    /\ UNCHANGED <<lastCommandTimestamp, receiver, sends, externalWrites,
                   dispatched, dispatchedLife, superseded, tornSeen>>
    /\ UNCHANGED <<addonVars, isSupervisor, lastCall, frameVars, restarts, restartCause, statusVars>>

\* Command files that _write_command never produces, put there by another
\* writer: valid JSON that is no object, objects lacking a required field, an
\* action no handler knows, and a simulation command the tool's input pattern
\* does not let through.
ForeignFiles ==
    {NonObjectFile,
     ObjectFile([action |-> "simulation_control", command |-> "pause"], 0),
     ObjectFile([action |-> "screenshot", filename |-> "view"], 0),
     ObjectFile([action |-> "simulation_control", command |-> "reload",
                 timestamp |-> IsoFormat(1)], 0)}
        \cup {ObjectFile([timestamp |-> IsoFormat(n)], 0) : n \in 1..MaxClock}
        \cup {ObjectFile([action |-> "teleport", timestamp |-> IsoFormat(n)], 0) :
                 n \in 1..MaxClock}

ExternalWrite(file) ==
    /\ sender.pc = "idle"
    /\ externalWrites < MaxExternal
    /\ externalWrites' = externalWrites + 1
    /\ commandsFile' = file
    /\ recvSinceWrite' = 0
    /\ lastResult' = NoResult
    /\ lastSend' = NoSend
    /\ superseded' = IF commandsFile.kind = "object" /\ commandsFile.id > 0
                     THEN commandsFile.id ELSE superseded
    /\ tornSeen' = 0
    /\ UNCHANGED <<lastCommandTimestamp, sender, receiver, sends, dispatched,
                   dispatchedLife>>
    /\ UNCHANGED <<addonVars, isSupervisor, lastCall, frameVars, restarts, restartCause, statusVars>>

----------------------------------------------------------------------------
(* Producer: process_commands and its handlers *)

\* A screenshot handler that does not test the supervisor flag.
HandleScreenshotUnchecked(cmd, sup, fails) ==
    IF fails THEN [ops |-> <<>>, logs |-> <<"ERROR">>]
    ELSE [ops |-> <<"exportImage">>, logs |-> <<"INFO">>]

\* _handle_screenshot
HandleScreenshot(cmd, sup, fails) ==
    IF ~sup THEN [ops |-> <<>>, logs |-> <<"WARN">>]
    ELSE IF fails THEN [ops |-> <<>>, logs |-> <<"ERROR">>]
    ELSE [ops |-> <<"exportImage">>, logs |-> <<"INFO">>]

\* _handle_simulation_control
HandleSimulationControl(cmd, sup, fails) ==
    LET command == Get(cmd, "command") IN
    IF ~sup THEN [ops |-> <<>>, logs |-> <<"WARN">>]
    ELSE IF command \notin SimulationCommands THEN [ops |-> <<>>, logs |-> <<>>]
    ELSE IF fails THEN [ops |-> <<>>, logs |-> <<"ERROR">>]
    ELSE IF command = "pause"
         THEN [ops |-> <<"simulationSetMode(PAUSE)">>, logs |-> <<"INFO">>]
    ELSE IF command = "resume"
         THEN [ops |-> <<"simulationSetMode(REAL_TIME)">>, logs |-> <<"INFO">>]
    ELSE IF command = "reset"
         THEN [ops |-> <<"simulationReset">>, logs |-> <<"INFO">>]
    ELSE [ops |-> <<"step">>, logs |-> <<"INFO">>]

\* A dispatch that logs a warning for an action it has no handler for.
DispatchWarnUnknown(cmd, sup, fails) ==
    LET action == Get(cmd, "action") IN
    IF action = "screenshot"
    THEN [handler |-> "screenshot"] @@ HandleScreenshot(cmd, sup, fails)
    ELSE IF action = "simulation_control"
    THEN [handler |-> "simulation_control"] @@ HandleSimulationControl(cmd, sup, fails)
    ELSE [handler |-> "none", ops |-> <<>>, logs |-> <<"WARN">>]

\* The if/elif on action at the end of process_commands.
Dispatch(cmd, sup, fails) ==
    LET action == Get(cmd, "action") IN
    IF action = "screenshot"
    THEN [handler |-> "screenshot"] @@ HandleScreenshot(cmd, sup, fails)
    ELSE IF action = "simulation_control"
    THEN [handler |-> "simulation_control"] @@ HandleSimulationControl(cmd, sup, fails)
    ELSE [handler |-> "none", ops |-> <<>>, logs |-> <<>>]

\* A dedup test that lets every document through.
AlwaysNewCommand(timestamp, last) == TRUE

\* "if timestamp == self._last_command_timestamp: return None", negated.
IsNewCommand(timestamp, last) == timestamp # last

\* A "return None" that also forgets the last-claimed timestamp.
NoCommandForgetting(last) ==
    [ret |-> "none", last |-> NoneVal, handler |-> "none", ops |-> <<>>, logs |-> <<>>]

\* The "return None" paths of process_commands: nothing changes.
NoCommand(last) ==
    [ret |-> "none", last |-> last, handler |-> "none", ops |-> <<>>, logs |-> <<>>]

\* A receive that marks the command it has read as claimed in the file.
FileAcknowledged(file) ==
    IF file.kind = "object"
    THEN ObjectFile(Update(file.doc, [status |-> "claimed"]), file.id)
    ELSE file

\* What process_commands does to the command file once it has claimed a
\* command, before the handler starts: nothing.  Neither process_commands nor
\* a handler writes the file.
FileAtDispatch(file) == file

\* process_commands up to the assignment of _last_command_timestamp, on the
\* file content it finds and the last-claimed timestamp.
ReadCommand(file, last) ==
    IF file.kind = "absent" THEN NoCommand(last)
    ELSE IF ~JsonLoads(file) THEN NoCommand(last)
    ELSE IF file.kind = "nonobject"
    THEN \* cmd.get on a list, number, string or None: AttributeError, not caught
         [ret |-> "raise", last |-> last, handler |-> "none", ops |-> <<>>, logs |-> <<>>]
    ELSE LET timestamp == Get(file.doc, "timestamp") IN
         IF ~IsNewCommand(timestamp, last) THEN NoCommand(last)
         ELSE [ret |-> "cmd", last |-> timestamp, handler |-> "none", ops |-> <<>>,
               logs |-> <<>>]

\* process_commands from exists() to the assignment of _last_command_timestamp.
\* The file cannot disappear between exists() and the open, so the read is one
\* step, taken at the open.  A call that finds no new command returns here; a
\* call that claims one goes on to its handler, and the tool server, another
\* process, may write the file before the handler starts and before the call
\* returns.  The producer is one thread: it does not call process_commands
\* while its update_status is running.
ReceiveRead ==
    LET out == ReadCommand(commandsFile, lastCommandTimestamp)
        claimed == out.ret = "cmd" /\ commandsFile.id > 0
        result == [ret |-> out.ret, handler |-> "none", ops |-> <<>>, logs |-> <<>>,
                   doc |-> IF out.ret = "cmd" THEN commandsFile.doc ELSE EmptyDoc,
                   id |-> IF out.ret = "cmd" THEN commandsFile.id ELSE 0,
                   fileRead |-> commandsFile,
                   fileAtDispatch |-> commandsFile,
                   lastBefore |-> lastCommandTimestamp,
                   lastAfter |-> out.last,
                   calls |-> IF recvSinceWrite < 2 THEN recvSinceWrite + 1 ELSE 2,
                   superseded |-> superseded]
    IN
    /\ receiver.pc = "idle"
    /\ publisher.pc = "idle"
    /\ lastCommandTimestamp' = out.last
    /\ IF out.ret = "cmd"
       THEN /\ receiver' = [pc |-> "dispatch", out |-> result]
            /\ lastResult' = NoResult
            /\ commandsFile' = FileAtDispatch(commandsFile)
       ELSE /\ lastResult' = result
            /\ UNCHANGED <<receiver, commandsFile>>
    /\ recvSinceWrite' = IF recvSinceWrite < 2 THEN recvSinceWrite + 1 ELSE 2
    /\ dispatched' = IF claimed
                     THEN [dispatched EXCEPT ![commandsFile.id] = @ + 1]
                     ELSE dispatched
    /\ dispatchedLife' = IF claimed
                         THEN [dispatchedLife EXCEPT ![commandsFile.id] = @ + 1]
                         ELSE dispatchedLife
    /\ lastSend' = NoSend
    /\ tornSeen' = IF commandsFile.kind = "torn" THEN commandsFile.id ELSE tornSeen
    /\ UNCHANGED <<sender, sends, externalWrites, superseded>>
    /\ UNCHANGED <<addonVars, isSupervisor, lastCall, frameVars, restarts, restartCause, statusVars>>

\* The if/elif on action and the handler it calls, for the command claimed: the
\* handler starts on whatever the file holds by now, and calls the simulator
\* (fails: the simulator call raises).
ReceiveHandler(fails) ==
    LET handled == Dispatch(receiver.out.doc, isSupervisor, fails) IN
    /\ receiver.pc = "dispatch"
    /\ receiver' = [pc |-> "return",
                    out |-> [receiver.out EXCEPT !.handler = handled.handler,
                                                 !.ops = handled.ops,
                                                 !.logs = handled.logs,
                                                 !.fileAtDispatch = commandsFile]]
    /\ lastResult' = NoResult
    /\ lastSend' = NoSend
    /\ UNCHANGED <<commandsFile, lastCommandTimestamp, sender, sends, externalWrites,
                   dispatched, dispatchedLife, recvSinceWrite, superseded, tornSeen>>
    /\ UNCHANGED <<addonVars, isSupervisor, lastCall, frameVars, restarts, restartCause, statusVars>>

\* "return cmd", once the handler's call to the simulator has come back.
ReceiveReturn ==
    /\ receiver.pc = "return"
    /\ receiver' = ReceiverIdle
    /\ lastResult' = receiver.out
    /\ lastSend' = NoSend
    /\ UNCHANGED <<commandsFile, lastCommandTimestamp, sender, sends, externalWrites,
                   dispatched, dispatchedLife, recvSinceWrite, superseded, tornSeen>>
    /\ UNCHANGED <<addonVars, isSupervisor, lastCall, frameVars, restarts, restartCause, statusVars>>

----------------------------------------------------------------------------
(* Producer: update_status *)

\* self._status_update_interval
StatusUpdateInterval == 5

\* Python truthiness of a list, tuple or dict (None is modelled by the empty one).
Truthy(x) == DOMAIN x # {}

\* The arguments of one update_status call with every optional argument left out.
MinimalState ==
    [pose |-> <<>>, mode |-> "search", collected |-> 0, max_cubes |-> 15,
     current_target |-> NoneVal, delivered |-> EmptyDoc, lidar_data |-> EmptyDoc,
     distance_sensors |-> EmptyDoc, recognized_objects |-> <<>>, waypoints |-> <<>>,
     current_waypoint_index |-> 0, active_goal |-> <<>>, arm_state |-> EmptyDoc,
     gripper_state |-> EmptyDoc, grid_ascii |-> "", extra |-> EmptyDoc]

\* The same call with every argument supplied.
FullState ==
    [pose |-> <<1, 2, 0>>, mode |-> "approach", collected |-> 1, max_cubes |-> 15,
     current_target |-> "red", delivered |-> [red |-> 1, green |-> 0, blue |-> 0],
     lidar_data |-> [min_distances |-> [front |-> 1], obstacle_count |-> 2],
     distance_sensors |-> [ds_front |-> 100],
     recognized_objects |-> <<[color |-> "red", distance |-> 1, angle |-> 0]>>,
     waypoints |-> <<<<1, 1>>, <<2, 2>>>>, current_waypoint_index |-> 1,
     active_goal |-> <<2, 2>>, arm_state |-> [arm1 |-> 0],
     gripper_state |-> [state |-> "closed"], grid_ascii |-> "R.#",
     extra |-> [note |-> "n"]]

\* The calls the model makes.
StatusInputs ==
    {MinimalState,
     FullState,
     [MinimalState EXCEPT !.pose = <<1, 2, 0>>, !.mode = "deliver",
                          !.lidar_data = [min_distances |-> [front |-> 1],
                                          obstacle_count |-> 0]],
     [MinimalState EXCEPT !.extra = [timestamp |-> "caller"]],
     [MinimalState EXCEPT !.extra = [mode |-> "override", note |-> "m"],
                          !.grid_ascii = "R.."]}

\* The dict update_status builds, with now = datetime.now().isoformat().
StatusDocument(a, now) ==
    LET s0 == [timestamp |-> now,
               pose |-> IF Truthy(a.pose) THEN a.pose ELSE <<0, 0, 0>>,
               mode |-> a.mode,
               collected |-> a.collected,
               max_cubes |-> a.max_cubes,
               current_target |-> a.current_target,
               delivered |-> IF Truthy(a.delivered) THEN a.delivered
                             ELSE [red |-> 0, green |-> 0, blue |-> 0]]
        s1 == IF Truthy(a.lidar_data) THEN Update(s0, [lidar |-> a.lidar_data]) ELSE s0
        s2 == IF Truthy(a.distance_sensors)
              THEN Update(s1, [distance_sensors |-> a.distance_sensors]) ELSE s1
        s3 == IF Truthy(a.recognized_objects)
              THEN Update(s2, [recognized_objects |-> a.recognized_objects]) ELSE s2
        s4 == IF Truthy(a.waypoints)
              THEN Update(s3, [waypoints |->
                                   [i \in DOMAIN a.waypoints |->
                                       <<a.waypoints[i][1], a.waypoints[i][2]>>],
                               current_waypoint_index |-> a.current_waypoint_index])
              ELSE s3
        s5 == IF Truthy(a.active_goal)
              THEN Update(s4, [active_goal |-> <<a.active_goal[1], a.active_goal[2]>>])
              ELSE s4
        s6 == IF Truthy(a.arm_state) THEN Update(s5, [arm |-> a.arm_state]) ELSE s5
        s7 == IF Truthy(a.gripper_state) THEN Update(s6, [gripper |-> a.gripper_state])
              ELSE s6
        s8 == IF a.grid_ascii # "" THEN Update(s7, [grid_ascii |-> a.grid_ascii]) ELSE s7
    IN  IF Truthy(a.extra) THEN Update(s8, a.extra) ELSE s8

\* The order in which json.dump emits the keys of a document: a file caught in
\* the middle of the write holds a prefix of them.
KeyOrder ==
    <<"timestamp", "pose", "mode", "collected", "max_cubes", "current_target",
      "delivered", "lidar", "distance_sensors", "recognized_objects", "waypoints",
      "current_waypoint_index", "active_goal", "arm", "gripper", "grid_ascii", "note">>

\* The first n keys of KeyOrder that doc has.
Prefix(doc, n) ==
    LET keep == {KeyOrder[i] : i \in 1..n} \cap DOMAIN doc
    IN  [k \in keep |-> doc[k]]

\* A throttle that writes on the first call of every K instead of the Kth.
ThrottledOffByOne(counter) == counter % StatusUpdateInterval # 1

\* "if self._step_counter % self._status_update_interval != 0: return"
Throttled(counter) == counter % StatusUpdateInterval # 0

\* A write that does not truncate and merges the new document into the one the
\* file holds.
MergeInto(file, new) ==
    IF file.kind # "object" THEN new
    ELSE IF new.kind = "object" THEN [new EXCEPT !.doc = Update(file.doc, new.doc)]
    ELSE [file EXCEPT !.id = new.id]

\* open(self.status_file, 'w') followed by json.dump: the file afterwards holds
\* what was written, whatever it held before.
OverwriteStatus(file, new) == new

Idle == [pc |-> "idle", doc |-> EmptyDoc, args |-> MinimalState, before |-> AbsentFile]

\* How many characters of a text reach grid.txt once write_text has opened
\* (and so emptied) the file: any number from none to all of them.
GridWriteLengths(text) == 0..Len(text)

\* No read has just returned and none is in progress.
NeverRead == [ret |-> "never", doc |-> EmptyDoc, error |-> ""]

\* lastRead describes the read that has just returned; a step of the producer
\* clears it, but leaves a read that is in progress where it is.
ClearRead(read) == IF read.ret = "exists" THEN read ELSE NeverRead

NoWrites == [opened |-> 0, failed |-> 0]

\* update_status up to and including open(self.status_file, 'w').
\* gridOpen: whether write_text can open grid.txt; gridChars: how many
\* characters it writes before it returns or raises (the exception is passed
\* over); openOk: whether the open of the status file succeeds.  The producer
\* is one thread: the call does not start while process_commands is running.
UpdateStatusCall(a, gridOpen, gridChars, openOk) ==
    LET counter == stepCounter + 1
        status == StatusDocument(a, IsoFormat(clock + 1))
    IN
    /\ publisher.pc = "idle"
    /\ receiver.pc = "idle"
    /\ clock < MaxSteps
    /\ clock' = clock + 1
    /\ stepCounter' = counter
    /\ IF Throttled(counter)
       THEN /\ lastPublish' = [outcome |-> "skipped", call |-> counter, args |-> a,
                               raised |-> FALSE, force |-> FALSE,
                               now |-> IsoFormat(clock + 1),
                               before |-> statusFile, after |-> statusFile]
            /\ UNCHANGED <<statusFile, gridFile, publisher, writesLife>>
       ELSE /\ writesLife' = IF openOk
                             THEN [writesLife EXCEPT !.opened = @ + 1]
                             ELSE [writesLife EXCEPT !.failed = @ + 1]
            /\ gridFile' = IF a.grid_ascii # "" /\ gridOpen
                           THEN SubSeq(a.grid_ascii, 1, gridChars)
                           ELSE gridFile
            /\ IF openOk
               THEN /\ statusFile' = OverwriteStatus(statusFile, TornFile(clock + 1))
                    /\ publisher' = [pc |-> "dumping", doc |-> status, args |-> a,
                                     before |-> statusFile]
                    /\ lastPublish' = [outcome |-> "writing", call |-> counter,
                                       args |-> a, raised |-> FALSE, force |-> FALSE,
                                       now |-> IsoFormat(clock + 1),
                                       before |-> statusFile,
                                       after |-> OverwriteStatus(statusFile,
                                                                 TornFile(clock + 1))]
               ELSE \* the exception is logged, update_status returns
                    /\ lastPublish' = [outcome |-> "open failed", call |-> counter,
                                       args |-> a, raised |-> FALSE, force |-> FALSE,
                                       now |-> IsoFormat(clock + 1),
                                       before |-> statusFile, after |-> statusFile]
                    /\ UNCHANGED <<statusFile, publisher>>
    /\ lastRead' = ClearRead(lastRead)
    /\ UNCHANGED written
    /\ UNCHANGED <<addonVars, isSupervisor, lastCall, frameVars, restarts, restartCause, commandVars>>

\* update_status called with the keyword force=True.  The signature has no
\* such parameter: Python raises TypeError before the body runs, so the counter
\* is not incremented and nothing is written.
UpdateStatusForce(a) ==
    /\ publisher.pc = "idle"
    /\ receiver.pc = "idle"
    /\ lastPublish' = [outcome |-> "TypeError", call |-> stepCounter, args |-> a,
                       raised |-> TRUE, force |-> TRUE, now |-> NoneVal,
                       before |-> statusFile, after |-> statusFile]
    /\ lastRead' = ClearRead(lastRead)
    /\ UNCHANGED <<statusFile, gridFile, stepCounter, publisher, clock, writesLife,
                   written>>
    /\ UNCHANGED <<addonVars, isSupervisor, lastCall, frameVars, restarts, restartCause, commandVars>>

\* json.dump in progress: more of the document has reached the file.  A large
\* document reaches it in several pieces, each a longer prefix than the last.
UpdateStatusPartial(n) ==
    /\ publisher.pc = "dumping"
    /\ statusFile.kind = "torn"
    /\ Prefix(publisher.doc, n) # publisher.doc
    /\ DOMAIN statusFile.doc \subseteq DOMAIN Prefix(publisher.doc, n)
    /\ DOMAIN statusFile.doc # DOMAIN Prefix(publisher.doc, n)
    /\ statusFile' = [statusFile EXCEPT !.doc = Prefix(publisher.doc, n)]
    /\ lastPublish' = [lastPublish EXCEPT !.after = statusFile']
    /\ lastRead' = ClearRead(lastRead)
    /\ UNCHANGED <<gridFile, stepCounter, publisher, clock, writesLife, written>>
    /\ UNCHANGED <<addonVars, isSupervisor, lastCall, frameVars, restarts, restartCause, commandVars>>

\* json.dump and close finish: the document is complete, or the write raised
\* (disk full, unserializable value), the exception is logged and update_status
\* returns, leaving in the file what had reached it.
UpdateStatusDump(ok) ==
    /\ publisher.pc = "dumping"
    /\ publisher' = Idle
    /\ IF ok
       THEN /\ statusFile' = OverwriteStatus(statusFile,
                                             ObjectFile(publisher.doc, statusFile.id))
            /\ written' = written \cup {publisher.doc}
       ELSE UNCHANGED <<statusFile, written>>
    /\ lastPublish' = [lastPublish EXCEPT
                          !.outcome = IF ok THEN "written" ELSE "dump failed",
                          !.after = statusFile']
    /\ lastRead' = ClearRead(lastRead)
    /\ UNCHANGED <<gridFile, stepCounter, clock, writesLife>>
    /\ UNCHANGED <<addonVars, isSupervisor, lastCall, frameVars, restarts, restartCause, commandVars>>

----------------------------------------------------------------------------
(* Consumer: _load_status *)

\* What open(STATUS_FILE, 'r') and json.load raise on the file they find: a
\* missing file cannot be opened, an empty or cut-off text cannot be parsed.
JsonLoadError(file) ==
    CASE file.kind = "absent" -> "FileNotFoundError"
      [] file.kind = "torn" -> "JSONDecodeError"
      [] OTHER -> "none"

\* _load_status from its try on, on the file content it finds: only
\* json.JSONDecodeError is caught.
LoadStatusResult(file) ==
    IF file.kind # "absent" /\ JsonLoads(file)
    THEN [ret |-> "status", doc |-> file.doc, error |-> ""]
    ELSE IF JsonLoadError(file) = "JSONDecodeError"
    THEN [ret |-> "error", doc |-> EmptyDoc,
          error |-> "Status file is corrupted or being written"]
    ELSE [ret |-> "raise", doc |-> EmptyDoc, error |-> JsonLoadError(file)]

\* _load_status, "if not STATUS_FILE.exists()": the call returns the error
\* mapping, or goes on to open the file.
LoadStatusExists ==
    /\ lastRead.ret # "exists"
    /\ lastRead' = IF statusFile.kind = "absent"
                   THEN [ret |-> "error", doc |-> EmptyDoc,
                         error |-> "No status file found. Is the simulation running?"]
                   ELSE [ret |-> "exists", doc |-> EmptyDoc, error |-> ""]
    /\ UNCHANGED <<statusFile, gridFile, stepCounter, publisher, lastPublish, clock,
                   writesLife, written>>
    /\ UNCHANGED <<addonVars, isSupervisor, lastCall, frameVars, restarts, restartCause, commandVars>>

\* _load_status, the open and json.load that follow, on what the file holds by
\* then.
LoadStatusOpen ==
    /\ lastRead.ret = "exists"
    /\ lastRead' = LoadStatusResult(statusFile)
    /\ UNCHANGED <<statusFile, gridFile, stepCounter, publisher, lastPublish, clock,
                   writesLife, written>>
    /\ UNCHANGED <<addonVars, isSupervisor, lastCall, frameVars, restarts, restartCause, commandVars>>

----------------------------------------------------------------------------
(* Producer: construction *)

\* The directories MCPBridge.__init__ makes sure exist (mkdir parents=True,
\* exist_ok=True); the tool server creates the same list when it is imported.
BridgeDirs == {"data", "data/camera", "data/screenshots", "data/logs", "data/grid"}

\* MCPBridge.__init__ on a producer that has not been constructed yet.
Construct ==
    /\ ~constructed
    /\ constructed' = TRUE
    /\ dirs' = dirs \cup BridgeDirs
    /\ frameCounter' = 0
    /\ UNCHANGED <<pilAvailable, cameraDir, pusher, framesSaved, frameFaults, capacities>>
    /\ UNCHANGED <<addonVars, isSupervisor, lastCall, restarts, restartCause, commandVars, statusVars>>

----------------------------------------------------------------------------
(* Producer: save_camera_frame and _cleanup_old_frames *)

\* The decimal digits of n.
RECURSIVE Digits(_)
Digits(n) == IF n < 10 THEN <<n>> ELSE Append(Digits(n \div 10), n % 10)

\* f"{n:06d}": the decimal digits of n, zero-padded to at least six; a number
\* of seven digits or more keeps all its digits.
Pad6(n) ==
    LET d == Digits(n)
    IN  IF Len(d) >= 6 THEN d ELSE [i \in 1..(6 - Len(d)) |-> 0] \o d

\* The file frame_<n:06d>.<ext>
FrameFile(n, ext) == [digits |-> Pad6(n), ext |-> ext]

\* Order of two frame file names of the same extension as sorted() orders the
\* paths: character by character; where the digits of one name end, its "."
\* is compared with a digit of the other and is below it.
NameLess(f, g) ==
    LET a == f.digits
        b == g.digits
        n == IF Len(a) < Len(b) THEN Len(a) ELSE Len(b)
    IN  \/ \E i \in 1..n : /\ a[i] < b[i]
                            /\ \A j \in 1..(i - 1) : a[j] = b[j]
        \/ /\ Len(a) < Len(b)
           /\ \A j \in 1..n : a[j] = b[j]

\* self.camera_dir.glob("frame_*.png")
GlobPng(dir) == {f \in dir : f.ext = "png"}

\* The position (from 1) of f in sorted(frames).
SortedIndex(f, frames) == Cardinality({g \in frames : NameLess(g, f)}) + 1

\* frames[:-max_frames] of the sorted list, as a set: every element but the
\* last max_frames; [:-0] is [:0], the empty list.
AllButLast(frames, max_frames) ==
    IF max_frames = 0 THEN {}
    ELSE {f \in frames : SortedIndex(f, frames) + max_frames <= Cardinality(frames)}

\* _cleanup_old_frames: the directory afterwards, when the unlink of the files
\* in failing raises (and is ignored).
CleanupOldFrames(dir, max_frames, failing) ==
    LET frames == GlobPng(dir) IN
    IF Cardinality(frames) > max_frames
    THEN dir \ (AllButLast(frames, max_frames) \ failing)
    ELSE dir

\* No push in progress, none made.  Beside its position the pusher records the
\* file the last push wrote and the files the sweep of that push removed.
PusherIdle == [pc |-> "idle", max_frames |-> 0, wrote |-> {}, removed |-> {}]

\* Where a call of save_camera_frame can fail: in Image.frombytes or convert
\* (PIL branch only, before the counter is incremented), in opening the frame
\* file (nothing is created), or in writing it after it was created (the file
\* stays, empty or partial).  A PIL that removes the file it failed to write
\* gives the outcome of "open".
FrameFailures == {"none", "convert", "open", "write"}

\* save_camera_frame up to the end of the file write.  image: what
\* camera.getImage() returns; fault: where the call fails.  With PIL the sweep
\* follows a complete write; the raw fallback returns after the write; every
\* failure is logged by the outer except and the call returns without a sweep.
SaveCameraFrame(image, max_frames, fault) ==
    /\ constructed
    /\ pusher.pc = "idle"
    /\ frameCounter < MaxFrames
    /\ fault = "convert" => pilAvailable
    /\ IF image = "empty"
       THEN UNCHANGED <<frameCounter, cameraDir, pusher, framesSaved, frameFaults,
                        capacities>>
       ELSE IF fault = "convert"
       THEN /\ frameFaults' = TRUE
            /\ pusher' = PusherIdle
            /\ capacities' = capacities \cup {max_frames}
            /\ UNCHANGED <<frameCounter, cameraDir, framesSaved>>
       ELSE LET file == FrameFile(frameCounter + 1,
                                  IF pilAvailable THEN "png" ELSE "raw")
            IN  /\ frameCounter' = frameCounter + 1
                /\ capacities' = capacities \cup {max_frames}
                /\ cameraDir' = IF fault = "open" THEN cameraDir ELSE cameraDir \cup {file}
                /\ framesSaved' = IF fault = "none" THEN framesSaved + 1 ELSE framesSaved
                /\ frameFaults' = (frameFaults \/ fault # "none")
                /\ pusher' = IF fault # "none" THEN PusherIdle
                             ELSE IF pilAvailable
                             THEN [pc |-> "sweeping", max_frames |-> max_frames,
                                   wrote |-> {file}, removed |-> {}]
                             ELSE [PusherIdle EXCEPT !.wrote = {file}]
    /\ UNCHANGED <<constructed, dirs, pilAvailable>>
    /\ UNCHANGED <<addonVars, isSupervisor, lastCall, restarts, restartCause, commandVars, statusVars>>

\* save_camera_frame, the call of _cleanup_old_frames that ends the PIL branch.
SweepFrames(failing) ==
    /\ pusher.pc = "sweeping"
    /\ failing \subseteq AllButLast(GlobPng(cameraDir), pusher.max_frames)
    /\ Cardinality(GlobPng(cameraDir)) <= pusher.max_frames => failing = {}
    /\ cameraDir' = CleanupOldFrames(cameraDir, pusher.max_frames, failing)
    /\ frameFaults' = (frameFaults \/ failing # {})
    /\ pusher' = [PusherIdle EXCEPT
                      !.wrote = pusher.wrote,
                      !.removed = cameraDir \ CleanupOldFrames(cameraDir, pusher.max_frames,
                                                              failing)]
    /\ UNCHANGED <<frameCounter, constructed, dirs, pilAvailable, framesSaved, capacities>>
    /\ UNCHANGED <<addonVars, isSupervisor, lastCall, restarts, restartCause, commandVars, statusVars>>

----------------------------------------------------------------------------
(* Producer: collect_lidar_data and collect_distance_sensors *)

\* The names of the devices, the ranges a lidar returns and the maximum ranges a
\* lidar reports.  Ranges are whole distance units: 0 is below the 1.0 of
\* collect_lidar_data, 1 is at it, 2 above it.
DeviceNames == {"front", "rear"}
RangeReadings == {0, 1, 2}
MaxRanges == {1, 2}

\* The 1.0 in "if r < 1.0".
ProximityThreshold == 1

\* float('inf'): above every range.
Infinity == 1000000

\* Sequences over S of length at most n.
SeqUpTo(S, n) == UNION {[1..k -> S] : k \in 0..n}

\* A lidar device: what getRangeImage() returns, what getMaxRange() returns and
\* which of the two calls raises (getMaxRange is called once per return that is
\* tested, so not at all for an empty range image).
LidarDevices ==
    [ranges : SeqUpTo(RangeReadings, MaxReturns), max_range : MaxRanges,
     raises : {"none", "getMaxRange"}]
        \cup {[ranges |-> <<>>, max_range |-> 1, raises |-> "getRangeImage"]}

\* A distance sensor: what getValue() returns, or that it raises.
DistanceSensors == [value : {0, 100, 1000}, raises : BOOLEAN]

\* A dict of k devices (at most two), in insertion order: the device d under
\* the name n first, then the device e under the other name.
DeviceDict(k, n, d, e) ==
    LET other == CHOOSE m \in DeviceNames : m # n
        both == <<[name |-> n, device |-> d], [name |-> other, device |-> e]>>
    IN  SubSeq(both, 1, k)

NoCall == [fn |-> "none", input |-> <<>>, result |-> EmptyDoc]

\* "r < lidar.getMaxRange()" with "<=" in its place.
IsValidRangeInclusive(r, max_range) == r <= max_range

\* "r < lidar.getMaxRange()"
IsValidRange(r, max_range) == r < max_range

\* [r for r in ranges if r < lidar.getMaxRange()]
ValidRanges(ranges, max_range) ==
    SelectSeq(ranges, LAMBDA r : IsValidRange(r, max_range))

\* min(valid_ranges) of a non-empty list.
Min(rs) == CHOOSE m \in {rs[i] : i \in DOMAIN rs} : \A i \in DOMAIN rs : m <= rs[i]

\* An except clause that gives up the results collected so far.
ExceptReset(result) == [min_distances |-> EmptyDoc, obstacle_count |-> 0]

\* "except Exception: pass" in the loop of collect_lidar_data: the result is as
\* it was before this device.
ExceptPass(result) == result

\* The body of the loop of collect_lidar_data for one device.
LidarStep(result, name, lidar) ==
    IF lidar.raises = "getRangeImage" THEN ExceptPass(result)
    ELSE IF lidar.ranges = <<>> THEN result
    ELSE IF lidar.raises = "getMaxRange" THEN ExceptPass(result)
    ELSE LET valid_ranges == ValidRanges(lidar.ranges, lidar.max_range) IN
         IF valid_ranges # <<>>
         THEN [min_distances |->
                   Update(result.min_distances, name :> Min(valid_ranges)),
               obstacle_count |->
                   result.obstacle_count
                       + Len(SelectSeq(valid_ranges,
                                       LAMBDA r : r < ProximityThreshold))]
         ELSE [result EXCEPT !.min_distances = Update(@, name :> Infinity)]

RECURSIVE LidarLoop(_, _, _)
LidarLoop(lidars, i, result) ==
    IF i > Len(lidars) THEN result
    ELSE LidarLoop(lidars, i + 1, LidarStep(result, lidars[i].name, lidars[i].device))

\* collect_lidar_data
CollectLidarData(lidars) ==
    LidarLoop(lidars, 1, [min_distances |-> EmptyDoc, obstacle_count |-> 0])

\* The body of the loop of collect_distance_sensors for one sensor.
SensorStep(result, name, sensor) ==
    IF sensor.raises THEN result ELSE Update(result, name :> sensor.value)

RECURSIVE SensorLoop(_, _, _)
SensorLoop(sensors, i, result) ==
    IF i > Len(sensors) THEN result
    ELSE SensorLoop(sensors, i + 1,
                    SensorStep(result, sensors[i].name, sensors[i].device))

\* collect_distance_sensors
CollectDistanceSensors(sensors) == SensorLoop(sensors, 1, EmptyDoc)

\* One call of collect_lidar_data on a freshly built dict of devices.
CollectLidar(lidars) ==
    /\ lastCall = NoCall
    /\ lastCall' = [fn |-> "collect_lidar_data", input |-> lidars,
                    result |-> CollectLidarData(lidars)]
    /\ UNCHANGED <<addonVars, isSupervisor, restarts, restartCause, commandVars, statusVars,
                   frameVars>>

\* One call of collect_distance_sensors on a freshly built dict of sensors.
CollectDistance(sensors) ==
    /\ lastCall = NoCall
    /\ lastCall' = [fn |-> "collect_distance_sensors", input |-> sensors,
                    result |-> CollectDistanceSensors(sensors)]
    /\ UNCHANGED <<addonVars, isSupervisor, restarts, restartCause, commandVars, statusVars,
                   frameVars>>

----------------------------------------------------------------------------
(* Producer: collect_recognized_objects *)

\* Colour channels and the 0.5 of the colour tests, in tenths: 1 is 0.1, 5 is
\* 0.5, 9 is 0.9.
ChannelLevels == {1, 3, 5, 9}
ColorThreshold == 5

\* The relative positions obj.getPosition() returns in the model: their length
\* and their azimuth are whole numbers.
Positions == {<<1, 0, 0>>, <<0, 2, 0>>, <<2, 2, 1>>}

\* A colour test that counts a channel at exactly 0.5 as above 0.5.
ClassifyColorInclusive(color_arr) ==
    IF color_arr[1] >= ColorThreshold /\ color_arr[2] < ColorThreshold THEN "red"
    ELSE IF color_arr[2] >= ColorThreshold /\ color_arr[1] < ColorThreshold THEN "green"
    ELSE IF color_arr[3] >= ColorThreshold THEN "blue"
    ELSE "unknown"

\* The if/elif chain on color_arr.
ClassifyColor(color_arr) ==
    IF color_arr[1] > ColorThreshold /\ color_arr[2] < ColorThreshold THEN "red"
    ELSE IF color_arr[2] > ColorThreshold /\ color_arr[1] < ColorThreshold THEN "green"
    ELSE IF color_arr[3] > ColorThreshold THEN "blue"
    ELSE "unknown"

\* round(math.sqrt(pos[0]**2 + pos[1]**2 + pos[2]**2), 3), for the positions of
\* the model.
Distance(pos) ==
    CHOOSE d \in 0..3 : d * d = pos[1] * pos[1] + pos[2] * pos[2] + pos[3] * pos[3]

\* round(math.degrees(math.atan2(pos[1], pos[0])), 1), for the positions of the
\* model.
Angle(pos) == IF pos[2] = 0 THEN 0 ELSE IF pos[1] = 0 THEN 90 ELSE 45

\* A recognition object: what getColors() and getPosition() return and which of
\* the two calls raises.
RecognitionObjects ==
    [colors : ChannelLevels \X ChannelLevels \X ChannelLevels, position : Positions,
     raises : {"none", "getColors", "getPosition"}]

\* The objects that follow the first one in a list of two.
SecondObjects ==
    {[colors |-> <<1, 1, 9>>, position |-> <<1, 0, 0>>, raises |-> "none"],
     [colors |-> <<9, 9, 1>>, position |-> <<0, 2, 0>>, raises |-> "none"],
     [colors |-> <<9, 1, 1>>, position |-> <<2, 2, 1>>, raises |-> "getColors"]}

\* The loop of collect_recognized_objects from the i-th object on.  The try
\* encloses the whole loop: an object whose call raises ends it, and the objects
\* appended so far are returned.
RECURSIVE ObjectsLoop(_, _, _)
ObjectsLoop(recognized, i, objects) ==
    IF i > Len(recognized) THEN objects
    ELSE IF recognized[i].raises # "none" THEN objects
    ELSE ObjectsLoop(recognized, i + 1,
                     Append(objects,
                            [color |-> ClassifyColor(recognized[i].colors),
                             distance |-> Distance(recognized[i].position),
                             angle |-> Angle(recognized[i].position)]))

\* collect_recognized_objects; camera.raises: getRecognitionObjects() raises.
CollectRecognizedObjects(camera) ==
    IF camera.raises THEN <<>> ELSE ObjectsLoop(camera.objects, 1, <<>>)

\* One call of collect_recognized_objects on a camera.
CollectObjects(camera) ==
    /\ lastCall' = [fn |-> "collect_recognized_objects", input |-> camera,
                    result |-> CollectRecognizedObjects(camera)]
    /\ UNCHANGED <<addonVars, isSupervisor, restarts, restartCause, commandVars, statusVars,
                   frameVars>>

----------------------------------------------------------------------------
(* Producer: generate_grid_ascii *)

\* grid.get(gx, gy) returns one of these; "UNKNOWN" stands for every value that
\* is none of the four named states.
CellStates == {"FREE", "OBSTACLE", "BOX", "CUBE", "UNKNOWN"}

\* What grid.world_to_cell returns for a position outside the grid.
NoCell == <<>>

\* The cells of a grid, numbered from 0.
Cells(width, height) == (0..(width - 1)) \X (0..(height - 1))

\* An occupancy grid that is FREE except for one marked cell.
Grid(width, height, marked, value) ==
    [width |-> width, height |-> height, marked |-> marked, value |-> value]

\* grid.get(gx, gy)
GridGet(grid, gx, gy) == IF <<gx, gy>> = grid.marked THEN grid.value ELSE "FREE"

\* range(0, stop, step) as a sequence.
RECURSIVE RangeFrom(_, _, _)
RangeFrom(start, stop, step) ==
    IF start >= stop THEN <<>> ELSE <<start>> \o RangeFrom(start + step, stop, step)

\* range(height - 1, -1, -scale) read from its low end: rows in ascending y.
RowOrderAscending(height, scale) ==
    LET n == (height - 1) \div scale
    IN  [k \in 1..(n + 1) |-> (height - 1) - (n + 1 - k) * scale]

\* range(height - 1, -1, -scale): height-1, height-1-scale, ... down to 0.
RowOrder(height, scale) ==
    [k \in 1..(((height - 1) \div scale) + 1) |-> (height - 1) - (k - 1) * scale]

\* The character of one sampled cell.
CellChar(grid, robot_cell, gx, gy) ==
    IF robot_cell # NoCell /\ gx = robot_cell[1] /\ gy = robot_cell[2] THEN "R"
    ELSE LET val == GridGet(grid, gx, gy)
         IN  IF val = "OBSTACLE" THEN "#"
             ELSE IF val = "FREE" THEN "."
             ELSE IF val = "BOX" THEN "B"
             ELSE IF val = "CUBE" THEN "C"
             ELSE "?"

\* The inner loop: one row of the output, a sequence of characters.
Row(grid, robot_cell, gy, scale) ==
    LET columns == RangeFrom(0, grid.width, scale)
    IN  [k \in 1..Len(columns) |-> CellChar(grid, robot_cell, columns[k], gy)]

\* "\n".join(lines), as a sequence of characters.
RECURSIVE Join(_)
Join(lines) ==
    IF Len(lines) = 0 THEN <<>>
    ELSE IF Len(lines) = 1 THEN lines[1]
    ELSE lines[1] \o <<"\n">> \o Join(Tail(lines))

\* generate_grid_ascii
GenerateGridAscii(grid, robot_cell, scale) ==
    LET rows == RowOrder(grid.height, scale)
    IN  Join([k \in 1..Len(rows) |-> Row(grid, robot_cell, rows[k], scale)])

\* One call of generate_grid_ascii.
GenerateGrid(grid, robot_cell, scale) ==
    /\ lastCall' = [fn |-> "generate_grid_ascii",
                    input |-> [grid |-> grid, robot_cell |-> robot_cell, scale |-> scale],
                    result |-> GenerateGridAscii(grid, robot_cell, scale)]
    /\ UNCHANGED <<addonVars, isSupervisor, restarts, restartCause, commandVars, statusVars,
                   frameVars>>

----------------------------------------------------------------------------
(* Add-on: ReloadDetector *)

\* Environment times and the tolerance, in tenths of a time unit.
Tolerance == 1
TimeValues == {5, 10, 19, 20, 30}

\* A detector that has checked nothing: tracked time zero, no callback.
FreshDetector == [last_time |-> 0, registered |-> FALSE, invoked |-> 0, log |-> <<>>]

\* A regression test without tolerance.
IsRegressionExact(current_time, last_time) == current_time < last_time

\* current_time < last_time - tolerance
IsRegression(current_time, last_time) == current_time + Tolerance < last_time

\* Registering the callback of the detector.
Register ==
    /\ ~detector.registered
    /\ detector' = [detector EXCEPT !.registered = TRUE]
    /\ UNCHANGED <<monitor, isSupervisor, lastCall, restarts, restartCause, commandVars,
                   statusVars, frameVars>>

\* check(current_time): a reload invokes the callback, resets the tracked time
\* and returns true; anything else tracks current_time and returns false.  The
\* log keeps, per call, the time, the return value and the tracked time after.
Check(current_time) ==
    /\ Len(detector.log) < MaxChecks
    /\ LET reload == IsRegression(current_time, detector.last_time)
           last_time == IF reload THEN 0 ELSE current_time
       IN  detector' =
               [detector EXCEPT
                   !.last_time = last_time,
                   !.invoked = IF reload /\ detector.registered THEN @ + 1 ELSE @,
                   !.log = Append(@, [time |-> current_time, returned |-> reload,
                                      last_time |-> last_time])]
    /\ UNCHANGED <<monitor, isSupervisor, lastCall, restarts, restartCause, commandVars,
                   statusVars, frameVars>>

----------------------------------------------------------------------------
(* Add-on: BehaviorMonitor *)

\* The modes a status document can report.
Modes == {"search", "approach", "deliver"}

\* A read of the status document that yields nothing.
NoSample == "<no document>"

\* No monitoring run in progress, none reported.
IdleMonitor == [pc |-> "idle", remaining |-> 0, samples |-> <<>>, report |-> EmptyDoc]

\* The pairs of adjacent samples, each compared with the first sample.
RECURSIVE TransitionsFromFirst(_)
TransitionsFromFirst(modes) ==
    IF Len(modes) < 2 THEN <<>>
    ELSE (IF modes[1] # modes[2] THEN <<[from |-> modes[1], to |-> modes[2]]>> ELSE <<>>)
             \o TransitionsFromFirst(<<modes[1]>> \o Tail(Tail(modes)))

\* The adjacent pairs of a mode sequence whose modes differ, in order.
RECURSIVE Transitions(_)
Transitions(modes) ==
    IF Len(modes) < 2 THEN <<>>
    ELSE (IF modes[1] # modes[2] THEN <<[from |-> modes[1], to |-> modes[2]]>> ELSE <<>>)
             \o Transitions(Tail(modes))

\* monitor(duration, interval) starts: floor(duration / interval) reads to do.
Monitor(duration, interval) ==
    /\ monitor.pc # "collecting"
    /\ monitor' = [pc |-> "collecting", remaining |-> duration \div interval,
                   samples |-> <<>>, report |-> EmptyDoc]
    /\ UNCHANGED <<detector, isSupervisor, lastCall, restarts, restartCause, commandVars,
                   statusVars, frameVars>>

\* One read of the status document during the run, then the sleep: a document is
\* collected, no document is not.
Sample(mode) ==
    /\ monitor.pc = "collecting"
    /\ monitor.remaining > 0
    /\ monitor' = [monitor EXCEPT
                      !.remaining = @ - 1,
                      !.samples = IF mode = NoSample THEN @ ELSE Append(@, mode)]
    /\ UNCHANGED <<detector, isSupervisor, lastCall, restarts, restartCause, commandVars,
                   statusVars, frameVars>>

\* The post-processing of the run: no data without samples, else the summary.
Report ==
    /\ monitor.pc = "collecting"
    /\ monitor.remaining = 0
    /\ monitor' = [monitor EXCEPT
                      !.pc = "done",
                      !.report = IF Len(monitor.samples) = 0
                                 THEN [no_data |-> TRUE]
                                 ELSE [no_data |-> FALSE,
                                       transitions |-> Transitions(monitor.samples)]]
    /\ UNCHANGED <<detector, isSupervisor, lastCall, restarts, restartCause, commandVars,
                   statusVars, frameVars>>

----------------------------------------------------------------------------
(* Producer restart: MCPBridge.__init__ runs again; the files stay. *)

Restart ==
    /\ constructed
    /\ restarts < MaxRestarts
    /\ restarts' = restarts + 1
    /\ restartCause' = IF \/ lastResult.ops = <<"simulationReset">>
                           \/ receiver.out.ops = <<"simulationReset">>
                        THEN "reset" ELSE "other"
    /\ receiver' = ReceiverIdle
    /\ lastCommandTimestamp' = NoneVal
    /\ frameCounter' = 0
    /\ stepCounter' = 0
    /\ writesLife' = NoWrites
    /\ publisher' = Idle
    /\ dispatchedLife' = [i \in 1..MaxSends |-> 0]
    /\ recvSinceWrite' = 0
    /\ lastResult' = NoResult
    /\ lastSend' = NoSend
    /\ tornSeen' = 0
    /\ dirs' = dirs \cup BridgeDirs
    /\ pusher' = PusherIdle
    /\ UNCHANGED <<addonVars, isSupervisor, lastCall, commandsFile, statusFile, gridFile, sender,
                   lastPublish, lastRead, sends, externalWrites, dispatched,
                   superseded, clock, written>>
    /\ frameFaults' = (frameFaults \/ pusher.pc = "sweeping")
    /\ UNCHANGED <<constructed, pilAvailable, cameraDir, framesSaved, capacities>>

----------------------------------------------------------------------------
(* Specifications *)

\* The channel state of a producer and a consumer that have done nothing yet.
InitChannels ==
    /\ isSupervisor \in BOOLEAN
    /\ lastCommandTimestamp = NoneVal
    /\ stepCounter = 0
    /\ frameCounter = 0
    /\ commandsFile = AbsentFile
    /\ statusFile = AbsentFile
    /\ gridFile = NoneVal
    /\ sender = [pc |-> "idle", doc |-> EmptyDoc, id |-> 0]
    /\ publisher = Idle
    /\ receiver = ReceiverIdle
    /\ lastResult = NoResult
    /\ lastSend = NoSend
    /\ lastPublish = [outcome |-> "never", call |-> 0, args |-> MinimalState,
                      raised |-> FALSE, force |-> FALSE, now |-> NoneVal,
                      before |-> AbsentFile,
                      after |-> AbsentFile]
    /\ lastRead = NeverRead
    /\ sends = 0
    /\ externalWrites = 0
    /\ dispatched = [i \in 1..MaxSends |-> 0]
    /\ dispatchedLife = [i \in 1..MaxSends |-> 0]
    /\ recvSinceWrite = 0
    /\ superseded = 0
    /\ tornSeen = 0
    /\ restarts = 0
    /\ restartCause = "none"
    /\ clock = 0
    /\ writesLife = NoWrites
    /\ written = {}
    /\ cameraDir = {}
    /\ pusher = PusherIdle
    /\ framesSaved = 0
    /\ frameFaults = FALSE
    /\ capacities = {}
    /\ lastCall = NoCall
    /\ detector = FreshDetector
    /\ monitor = IdleMonitor

\* The producer has been constructed in an environment that has PIL.
Init ==
    /\ InitChannels
    /\ constructed = TRUE
    /\ dirs = BridgeDirs
    /\ pilAvailable = TRUE

\* The producer is about to be constructed; the directories exist already when
\* the tool server was started first.
InitFrames ==
    /\ InitChannels
    /\ constructed = FALSE
    /\ dirs \in {{}, BridgeDirs}
    /\ pilAvailable \in BOOLEAN

\* The command channel.
Next ==
    \/ \E cmd \in ToolCommands, n \in 1..MaxClock : SendOpen(cmd, n, TRUE)
    \* a failing open has the same effect whatever the command is
    \/ SendOpen(SimulationControlCommand("pause"), 1, FALSE)
    \/ \E ok \in BOOLEAN : SendDump(ok)
    \/ \E file \in ForeignFiles : ExternalWrite(file)
    \/ ReceiveRead
    \/ \E fails \in BOOLEAN : ReceiveHandler(fails)
    \/ ReceiveReturn
    \/ Restart

Spec == Init /\ [][Next]_vars

\* The status channel.
NextStatus ==
    \* a throttled call returns before any file is touched: it has the same
    \* effect whatever the writes would have done
    \/ \E a \in StatusInputs :
          \/ Throttled(stepCounter + 1) /\ UpdateStatusCall(a, TRUE, 0, TRUE)
          \/ /\ ~Throttled(stepCounter + 1)
             /\ \E gridOpen \in BOOLEAN, openOk \in BOOLEAN,
                    gridChars \in GridWriteLengths(a.grid_ascii) :
                    UpdateStatusCall(a, gridOpen, gridChars, openOk)
    \/ UpdateStatusForce(MinimalState)
    \/ \E n \in 1..Len(KeyOrder) : UpdateStatusPartial(n)
    \/ \E ok \in BOOLEAN : UpdateStatusDump(ok)
    \/ LoadStatusExists
    \/ LoadStatusOpen

SpecStatus == Init /\ [][NextStatus]_vars

\* The producer's life and its camera frames.
NextFrames ==
    \/ Construct
    \/ \E image \in {"empty", "BGRA"}, max_frames \in 0..MaxCapacity,
          fault \in FrameFailures :
          SaveCameraFrame(image, max_frames, fault)
    \/ \E failing \in SUBSET cameraDir : SweepFrames(failing)
    \/ Restart

SpecFrames == InitFrames /\ [][NextFrames]_vars

\* The sensor summaries, each applied to one dict of devices.
NextSensors ==
    \/ /\ lastCall = NoCall
       /\ \E k \in 0..2, n \in DeviceNames, d \in LidarDevices, e \in LidarDevices :
              CollectLidar(DeviceDict(k, n, d, e))
    \/ /\ lastCall = NoCall
       /\ \E k \in 0..2, n \in DeviceNames, d \in DistanceSensors,
              e \in DistanceSensors :
              CollectDistance(DeviceDict(k, n, d, e))
    \/ /\ lastCall = NoCall
       /\ \E k \in 0..2, o \in RecognitionObjects, p \in SecondObjects,
              raises \in BOOLEAN :
              CollectObjects([objects |-> SubSeq(<<o, p>>, 1, k), raises |-> raises])

    \/ /\ lastCall = NoCall
       /\ \E width \in 1..MaxGridSize, height \in 1..MaxGridSize, scale \in 1..MaxScale,
              value \in CellStates :
              \E marked \in Cells(width, height),
                 robot_cell \in Cells(width, height) \cup {NoCell} :
                  GenerateGrid(Grid(width, height, marked, value), robot_cell, scale)

SpecSensors == Init /\ [][NextSensors]_vars

\* The reload detector on its own, polled with any sequence of times.
NextReload ==
    \/ Register
    \/ \E current_time \in TimeValues : Check(current_time)

SpecReload == Init /\ [][NextReload]_vars

\* The behaviour monitor on its own, sampling any sequence of modes.
NextMonitor ==
    \/ \E duration \in 1..MaxSamples, interval \in 1..2 : Monitor(duration, interval)
    \/ \E mode \in Modes \cup {NoSample} : Sample(mode)
    \/ Report

SpecMonitor == Init /\ [][NextMonitor]_vars

\* Both channels together: every operation of the two processes that reads or
\* writes status.json or commands.json, with every input and every outcome of
\* its file operations, and no other writer.
NextOwners ==
    \/ \E cmd \in ToolCommands, n \in 1..MaxClock :
          sends < MaxOwnerSends /\ SendOpen(cmd, n, TRUE)
    \/ sends < MaxOwnerSends /\ SendOpen(SimulationControlCommand("pause"), 1, FALSE)
    \/ \E ok \in BOOLEAN : SendDump(ok)
    \/ ReceiveRead
    \/ \E fails \in BOOLEAN : ReceiveHandler(fails)
    \/ ReceiveReturn
    \/ \E a \in StatusInputs :
          /\ clock < MaxOwnerTicks
          /\ \/ Throttled(stepCounter + 1) /\ UpdateStatusCall(a, TRUE, 0, TRUE)
             \/ /\ ~Throttled(stepCounter + 1)
                /\ \E gridOpen \in BOOLEAN, openOk \in BOOLEAN,
                       gridChars \in GridWriteLengths(a.grid_ascii) :
                       UpdateStatusCall(a, gridOpen, gridChars, openOk)
    \/ \E n \in 1..Len(KeyOrder) : UpdateStatusPartial(n)
    \/ \E ok \in BOOLEAN : UpdateStatusDump(ok)
    \/ LoadStatusExists
    \/ LoadStatusOpen

SpecOwners == Init /\ [][NextOwners]_vars

----------------------------------------------------------------------------
(* Claims about the command channel (specification Spec) *)

\* The cleared value of the command file, as the interface description gives it.
ClearedSentinel == [action |-> "none", command |-> "cleared", timestamp |-> "0"]

\* C1: clear-before-execute.  Whenever process_commands dispatches a command
\* that a tool sent, the command file already holds the cleared sentinel when
\* the handler starts.
C1_ClearBeforeExecute ==
    (lastResult.ret = "cmd" /\ lastResult.id > 0) =>
        /\ lastResult.fileAtDispatch.kind = "object"
        /\ lastResult.fileAtDispatch.doc = ClearedSentinel

\* The command file holds the complete document of the only write made so far,
\* the first _write_command.
OnlyOneSend ==
    /\ sends = 1
    /\ externalWrites = 0
    /\ commandsFile.kind = "object"
    /\ commandsFile.id = 1

\* C2: no reload loop.  One reset command was sent and nothing else; its handler
\* performed the reset and the producer restarted.  Then a receive of the
\* restarted producer returns no new command and the command has been
\* dispatched once over all lifetimes.
C2_NoReloadLoop ==
    (OnlyOneSend /\ restartCause = "reset" /\ lastResult.ret # "never") =>
        (lastResult.ret = "none" /\ dispatched[1] = 1)

\* C3: dedup within one process lifetime.  One producer instance claims a sent
\* command at most once; after one send its first receive returns the command,
\* and every later receive with no write in between returns nothing and calls
\* no handler.
C3_DedupWithinLifetime ==
    /\ \A i \in 1..MaxSends : dispatchedLife[i] <= 1
    /\ (OnlyOneSend /\ recvSinceWrite >= 1) => dispatchedLife[1] = 1
    /\ (OnlyOneSend /\ lastResult.calls = 1) =>
           (lastResult.ret = "cmd" /\ lastResult.id = 1
               /\ lastResult.doc = commandsFile.doc)
    /\ (lastResult.calls >= 2 /\ lastResult.fileRead.kind = "object") =>
           (lastResult.ret = "none" /\ lastResult.handler = "none"
               /\ lastResult.ops = <<>>)

C3_Witness ==
    /\ OnlyOneSend
    /\ lastResult.calls = 2
    /\ lastResult.ret = "none"
    /\ dispatchedLife[1] = 1

\* C4: single-slot supersede.  A command whose document a later write has
\* overwritten is never in the file again and is never claimed afterwards: the
\* command a process_commands call claims had not been overwritten when the
\* call read the file (a call already running when the write comes still
\* finishes the command it has claimed).  After a send returns True the file
\* holds exactly that send's document, so only the last command sent can be
\* claimed.
C4_SingleSlotSupersede ==
    /\ (lastResult.ret = "cmd" /\ lastResult.id > 0) =>
           lastResult.id > lastResult.superseded
    /\ (receiver.pc # "idle" /\ receiver.out.id > 0) =>
           receiver.out.id > receiver.out.superseded
    /\ commandsFile.id > 0 => commandsFile.id > superseded
    /\ lastSend.ret = "True" =>
           (commandsFile.kind = "object" /\ commandsFile.id = lastSend.id
               /\ commandsFile.id = sends)

C4_Witness ==
    /\ superseded = 1
    /\ dispatched[1] = 0
    /\ lastResult.ret = "cmd"
    /\ lastResult.id = 2

\* C6: a receive that finds the command file absent or unparsable returns
\* nothing, calls no handler, raises nothing and leaves the last-claimed timestamp
\* as it was; the command it caught mid-write is claimed once by a receive that
\* finds it complete.
C6_UnreadableFileIsNoCommand ==
    /\ (lastResult.ret # "never" /\ lastResult.fileRead.kind \in {"absent", "torn"}) =>
           /\ lastResult.ret = "none"
           /\ lastResult.handler = "none"
           /\ lastResult.ops = <<>>
           /\ lastResult.logs = <<>>
           /\ lastResult.lastAfter = lastResult.lastBefore
           /\ lastCommandTimestamp = lastResult.lastBefore
    /\ tornSeen > 0 => dispatchedLife[tornSeen] <= 1
    /\ (OnlyOneSend /\ tornSeen = 1 /\ recvSinceWrite >= 1) => dispatchedLife[1] = 1

C6_Witness ==
    /\ OnlyOneSend
    /\ tornSeen = 1
    /\ lastResult.ret = "cmd"
    /\ lastResult.id = 1
    /\ dispatchedLife[1] = 1

\* A command document that is valid JSON but not an object, or lacks a required
\* field.
Malformed(file) ==
    \/ file.kind = "nonobject"
    \/ file.kind = "object" /\ ~({"action", "timestamp"} \subseteq DOMAIN file.doc)

\* C7: a malformed command document is treated as no data: the receive returns
\* nothing, calls no handler, raises nothing and leaves the last-claimed
\* timestamp as it was.
C7_MalformedIsNoData ==
    (lastResult.ret # "never" /\ Malformed(lastResult.fileRead)) =>
        /\ lastResult.ret = "none"
        /\ lastResult.handler = "none"
        /\ lastResult.lastAfter = lastResult.lastBefore

\* The actions process_commands has a handler for.
KnownActions == {"screenshot", "simulation_control"}

\* A complete command document with both required fields whose action no
\* handler knows.
UnknownActionCommand(file) ==
    /\ file.kind = "object"
    /\ {"action", "timestamp"} \subseteq DOMAIN file.doc
    /\ file.doc["action"] \notin KnownActions

\* C12: an unknown action is a silent no-op.  A receive that finds a new
\* command whose action has no handler calls no handler, performs no environment
\* operation, logs nothing and raises nothing; it records the command's timestamp
\* as last-claimed and returns the command as it was in the file.
C12_UnknownActionIsSilentNoOp ==
    (/\ lastResult.ret # "never"
     /\ UnknownActionCommand(lastResult.fileRead)
     /\ lastResult.fileRead.doc["timestamp"] # lastResult.lastBefore) =>
        /\ lastResult.ret = "cmd"
        /\ lastResult.handler = "none"
        /\ lastResult.ops = <<>>
        /\ lastResult.logs = <<>>
        /\ lastResult.doc = lastResult.fileRead.doc
        /\ lastResult.lastAfter = lastResult.fileRead.doc["timestamp"]
        /\ lastCommandTimestamp = lastResult.fileRead.doc["timestamp"]

C12_Witness ==
    /\ lastResult.ret = "cmd"
    /\ UnknownActionCommand(lastResult.fileRead)
    /\ lastResult.doc["action"] = "teleport"
    /\ lastCommandTimestamp = lastResult.doc["timestamp"]

\* C13: capability violation.  A producer without supervisor capability that
\* receives a new screenshot or simulation-control command performs no
\* environment operation, logs one warning and raises nothing, and the receive
\* returns the command.
C13_CapabilityViolation ==
    (/\ lastResult.ret # "never"
     /\ ~isSupervisor
     /\ lastResult.fileRead.kind = "object"
     /\ Get(lastResult.fileRead.doc, "action") \in KnownActions
     /\ Get(lastResult.fileRead.doc, "timestamp") # lastResult.lastBefore) =>
        /\ lastResult.ret = "cmd"
        /\ lastResult.doc = lastResult.fileRead.doc
        /\ lastResult.handler = lastResult.doc["action"]
        /\ lastResult.ops = <<>>
        /\ lastResult.logs = <<"WARN">>

C13_Witness ==
    /\ ~isSupervisor
    /\ lastResult.ret = "cmd"
    /\ lastResult.id = 1
    /\ lastResult.handler = "simulation_control"
    /\ lastResult.doc["command"] = "reset"
    /\ lastResult.logs = <<"WARN">>

\* The built-in environment actions the design names, and the environment
\* operation each stands for.
BuiltInCommands == {"pause", "resume", "fast_forward", "reset", "reload", "step"}

ExpectedOperation(command) ==
    CASE command = "pause" -> "simulationSetMode(PAUSE)"
      [] command = "resume" -> "simulationSetMode(REAL_TIME)"
      [] command = "fast_forward" -> "simulationSetMode(FAST)"
      [] command = "reset" -> "simulationReset"
      [] command = "reload" -> "worldReload"
      [] command = "step" -> "step"

\* C18: built-in dispatch.  A producer with supervisor capability that receives
\* a new command naming a built-in environment action or a frame capture performs
\* the corresponding environment operation exactly once and no other (the case
\* where the environment call itself raises is left out).
C18_BuiltInDispatch ==
    (/\ lastResult.ret = "cmd"
     /\ isSupervisor
     /\ lastResult.logs # <<"ERROR">>) =>
        /\ Get(lastResult.doc, "action") = "screenshot" =>
               lastResult.ops = <<"exportImage">>
        /\ (/\ Get(lastResult.doc, "action") = "simulation_control"
            /\ Get(lastResult.doc, "command") \in BuiltInCommands) =>
               lastResult.ops = <<ExpectedOperation(lastResult.doc["command"])>>

----------------------------------------------------------------------------
(* Claims about the status channel (specification SpecStatus) *)

\* The value the written document has for key k when the call supplies it.
Supplied(a, d) ==
    /\ d["mode"] = (IF "mode" \in DOMAIN a.extra THEN a.extra["mode"] ELSE a.mode)
    /\ d["collected"] = a.collected
    /\ d["max_cubes"] = a.max_cubes
    /\ d["current_target"] = a.current_target
    /\ Truthy(a.pose) => d["pose"] = a.pose
    /\ Truthy(a.delivered) => d["delivered"] = a.delivered
    /\ Truthy(a.lidar_data) => d["lidar"] = a.lidar_data
    /\ Truthy(a.distance_sensors) => d["distance_sensors"] = a.distance_sensors
    /\ Truthy(a.recognized_objects) => d["recognized_objects"] = a.recognized_objects
    /\ Truthy(a.waypoints) =>
           (d["waypoints"] = a.waypoints
               /\ d["current_waypoint_index"] = a.current_waypoint_index)
    /\ Truthy(a.active_goal) => d["active_goal"] = a.active_goal
    /\ Truthy(a.arm_state) => d["arm"] = a.arm_state
    /\ Truthy(a.gripper_state) => d["gripper"] = a.gripper_state
    /\ a.grid_ascii # "" => d["grid_ascii"] = a.grid_ascii
    /\ \A k \in DOMAIN a.extra : d[k] = a.extra[k]

\* C5: throttle.  After n calls of a freshly constructed publisher the calls
\* K, 2K, ... and no others have gone on to write the status file, a skipped
\* call leaves the file as it is, and unless an open of the file failed exactly
\* floor(n/K) writes of the file were made; the document written holds the
\* fields of the state passed on the writing call.
C5_Throttle ==
    /\ writesLife.opened + writesLife.failed = stepCounter \div StatusUpdateInterval
    /\ writesLife.failed = 0 => writesLife.opened = stepCounter \div StatusUpdateInterval
    /\ lastPublish.outcome = "skipped" =>
           /\ lastPublish.call % StatusUpdateInterval # 0
           /\ statusFile = lastPublish.before
    /\ lastPublish.outcome \in {"writing", "written", "open failed", "dump failed"} =>
           lastPublish.call = StatusUpdateInterval * (writesLife.opened + writesLife.failed)
    /\ lastPublish.outcome \in {"writing", "written", "dump failed"} =>
           (writesLife.opened >= 1 /\ statusFile # lastPublish.before)
    /\ lastPublish.outcome \notin {"never", "skipped"} => lastPublish.call = stepCounter
    /\ lastPublish.outcome = "written" =>
           (statusFile.kind = "object" /\ Supplied(lastPublish.args, statusFile.doc))

C5_Witness ==
    /\ stepCounter = 2 * StatusUpdateInterval
    /\ writesLife = [opened |-> 2, failed |-> 0]
    /\ lastPublish.outcome = "written"
    /\ lastPublish.args = FullState

\* The keys a call of update_status supplies: the seven it always writes, one
\* for every optional argument that is given, and those of extra.
SuppliedKeys(a) ==
    {"timestamp", "pose", "mode", "collected", "max_cubes", "current_target",
     "delivered"}
        \cup (IF Truthy(a.lidar_data) THEN {"lidar"} ELSE {})
        \cup (IF Truthy(a.distance_sensors) THEN {"distance_sensors"} ELSE {})
        \cup (IF Truthy(a.recognized_objects) THEN {"recognized_objects"} ELSE {})
        \cup (IF Truthy(a.waypoints) THEN {"waypoints", "current_waypoint_index"} ELSE {})
        \cup (IF Truthy(a.active_goal) THEN {"active_goal"} ELSE {})
        \cup (IF Truthy(a.arm_state) THEN {"arm"} ELSE {})
        \cup (IF Truthy(a.gripper_state) THEN {"gripper"} ELSE {})
        \cup (IF a.grid_ascii # "" THEN {"grid_ascii"} ELSE {})
        \cup DOMAIN a.extra

\* C8: whole-document overwrite.  After a write the status file holds a
\* complete document with exactly the keys this call supplies and this call's
\* values (defaults for a pose or delivered map not given); a key of the
\* document the file held before is there only if this call supplies it.
C8_WholeDocumentOverwrite ==
    lastPublish.outcome = "written" =>
        LET a == lastPublish.args
            d == statusFile.doc
        IN  /\ statusFile.kind = "object"
            /\ DOMAIN d = SuppliedKeys(a)
            /\ Supplied(a, d)
            /\ "timestamp" \notin DOMAIN a.extra => d["timestamp"] = lastPublish.now
            /\ ~Truthy(a.pose) => d["pose"] = <<0, 0, 0>>
            /\ ~Truthy(a.delivered) => d["delivered"] = [red |-> 0, green |-> 0, blue |-> 0]
            /\ \A k \in DOMAIN lastPublish.before.doc :
                   k \notin SuppliedKeys(a) => k \notin DOMAIN d

C8_Witness ==
    /\ lastPublish.outcome = "written"
    /\ lastPublish.before.kind = "object"
    /\ "lidar" \in DOMAIN lastPublish.before.doc
    /\ "lidar" \notin DOMAIN statusFile.doc

\* C9: a failed status write is swallowed and the status file still holds the
\* complete document it held before.
C9_FailedWriteKeepsDocument ==
    lastPublish.outcome \in {"open failed", "dump failed"} =>
        /\ ~lastPublish.raised
        /\ lastPublish.before.kind = "object" => lastPublish.after = lastPublish.before

\* C10: torn-read tolerance.  Whatever the producer is doing to the status file,
\* _load_status does not raise, and what it returns as status is a complete
\* document that some publish wrote; a file caught mid-write gives the error
\* result.
C10_TornReadTolerance ==
    /\ lastRead.ret # "raise"
    /\ lastRead.ret = "status" => lastRead.doc \in written
    /\ lastRead.ret = "error" => lastRead.doc = EmptyDoc

C10_Witness ==
    /\ publisher.pc = "dumping"
    /\ statusFile.kind = "torn"
    /\ written # {}
    /\ lastRead.ret = "error"
    /\ lastRead.error = "Status file is corrupted or being written"

\* C14: every document written to the status file has a timestamp field whose
\* value is the producer's clock reading of that write, whatever the caller
\* passed, extra fields included.
C14_TimestampIsProducerClock ==
    /\ \A d \in written : "timestamp" \in DOMAIN d
    /\ lastPublish.outcome = "written" =>
           /\ statusFile.kind = "object"
           /\ "timestamp" \in DOMAIN statusFile.doc
           /\ statusFile.doc["timestamp"] = lastPublish.now

\* C15: forced publish.  A publish call made with force set writes the status
\* file on that very call, whatever the call counter is.
C15_ForcedPublishWrites ==
    lastPublish.force =>
        /\ ~lastPublish.raised
        /\ lastPublish.outcome \in {"writing", "written"}
        /\ lastPublish.after # lastPublish.before

----------------------------------------------------------------------------
(* Claims about the camera frames and the producer's life (specification
   SpecFrames) *)

\* C11: frame ring capacity.  Every push so far was made with the same capacity
\* N >= 1, none of them failed, and more than N frame files were written: once
\* the push has returned the frame directory holds exactly N frame files,
\* whether the frames are stored as PNG or as raw bytes.
C11_FrameRingCapacity ==
    \A N \in 1..MaxCapacity :
        (pusher.pc = "idle" /\ ~frameFaults /\ capacities = {N} /\ framesSaved > N) =>
            Cardinality(cameraDir) = N

\* C16: constructing the publisher has no file system side effects: the step
\* that constructs it leaves the set of existing directories and every file as
\* they were.
C16_ConstructionLeavesFileSystem ==
    [][(~constructed /\ constructed') =>
          /\ dirs' = dirs
          /\ cameraDir' = cameraDir
          /\ statusFile' = statusFile
          /\ commandsFile' = commandsFile
          /\ gridFile' = gridFile]_vars

----------------------------------------------------------------------------
(* Claims about both channels together (specification SpecOwners) *)

\* The steps of each operation on the two channels, with every input and
\* every outcome of its file operations.
PublishStep ==
    \/ \E ok \in BOOLEAN : UpdateStatusDump(ok)
    \/ \E n \in 1..Len(KeyOrder) : UpdateStatusPartial(n)
    \/ \E a \in StatusInputs, gridOpen \in BOOLEAN, openOk \in BOOLEAN :
          \E gridChars \in GridWriteLengths(a.grid_ascii) :
              UpdateStatusCall(a, gridOpen, gridChars, openOk)

SendStep ==
    \/ \E cmd \in ToolCommands, n \in 1..MaxClock, ok \in BOOLEAN : SendOpen(cmd, n, ok)
    \/ \E ok \in BOOLEAN : SendDump(ok)

\* C17: file ownership.  Every step that changes the status file is a step of
\* the producer's update_status (its open, a piece of the json.dump or the end
\* of the dump) and leaves the command file alone; every step that changes the
\* command file is a step of the consumer's _write_command and leaves the
\* status file alone.  So no step of process_commands or of a handler changes
\* the command file: the producer writes nothing to it but the cleared
\* sentinel, and in fact nothing at all; and no step of _load_status changes
\* either file.
C17_FileOwnership ==
    [][/\ statusFile' # statusFile => (PublishStep /\ commandsFile' = commandsFile)
       /\ commandsFile' # commandsFile => (SendStep /\ statusFile' = statusFile)]_vars

C17_Witness ==
    /\ lastPublish.outcome = "written"
    /\ statusFile.kind = "object"
    /\ commandsFile.kind = "object"
    /\ commandsFile.id = 1
    /\ dispatched[1] = 1
    /\ lastRead.ret = "status"
    /\ lastRead.doc = statusFile.doc

----------------------------------------------------------------------------
(* Claims about the sensor summaries (specification SpecSensors) *)

\* The dict without its i-th device.
Without(input, i) ==
    [j \in 1..(Len(input) - 1) |-> IF j < i THEN input[j] ELSE input[j + 1]]

\* C19: per-sensor failure isolation.  When reading a device raises, the
\* result of collect_lidar_data and of collect_distance_sensors has no entry
\* for that device and is, entries of the other devices and obstacle count
\* included, the result of the call on the dict without that device.
C19_PerSensorFailureIsolation ==
    /\ lastCall.fn = "collect_lidar_data" =>
           \A i \in DOMAIN lastCall.input :
               lastCall.input[i].device.raises # "none" =>
                   /\ lastCall.input[i].name \notin DOMAIN lastCall.result.min_distances
                   /\ lastCall.result = CollectLidarData(Without(lastCall.input, i))
    /\ lastCall.fn = "collect_distance_sensors" =>
           \A i \in DOMAIN lastCall.input :
               lastCall.input[i].device.raises =>
                   /\ lastCall.input[i].name \notin DOMAIN lastCall.result
                   /\ lastCall.result = CollectDistanceSensors(Without(lastCall.input, i))

C19_Witness ==
    /\ lastCall.fn = "collect_lidar_data"
    /\ Len(lastCall.input) = 2
    /\ lastCall.input[1].device.raises = "none"
    /\ lastCall.input[2].device.raises = "getMaxRange"
    /\ lastCall.input[2].device.ranges # <<>>
    /\ DOMAIN lastCall.result.min_distances = {lastCall.input[1].name}
    /\ lastCall.result.obstacle_count = 2

\* The returns of a device that are strictly below its maximum range.
ValidReturns(lidar) ==
    {j \in DOMAIN lidar.ranges : lidar.ranges[j] < lidar.max_range}

\* The number of valid returns of the devices d[i], i in S, that are below the
\* proximity threshold.
RECURSIVE CloseReturns(_, _)
CloseReturns(d, S) ==
    IF S = {} THEN 0
    ELSE LET i == CHOOSE x \in S : TRUE IN
         Cardinality({j \in ValidReturns(d[i].device) :
                         d[i].device.ranges[j] < ProximityThreshold})
             + CloseReturns(d, S \ {i})

\* C20: range summarization.  For every device that is read without failure
\* and has a return strictly below its maximum range, the minimum reported is
\* the least such return; returns at or beyond the maximum range count for
\* nothing; the obstacle count is the number of valid returns below 1.0 over all
\* devices.
C20_RangeSummarization ==
    lastCall.fn = "collect_lidar_data" =>
        LET working == {i \in DOMAIN lastCall.input :
                           lastCall.input[i].device.raises = "none"}
            mins == lastCall.result.min_distances
        IN
        /\ \A i \in working :
               LET lidar == lastCall.input[i].device
                   name == lastCall.input[i].name
               IN
               /\ ValidReturns(lidar) # {} =>
                      /\ name \in DOMAIN mins
                      /\ \E j \in ValidReturns(lidar) : mins[name] = lidar.ranges[j]
                      /\ \A j \in ValidReturns(lidar) : mins[name] <= lidar.ranges[j]
               /\ (lidar.ranges # <<>> /\ ValidReturns(lidar) = {}) =>
                      (name \in DOMAIN mins /\ mins[name] = Infinity)
        /\ lastCall.result.obstacle_count = CloseReturns(lastCall.input, working)

C20_Witness ==
    /\ lastCall.fn = "collect_lidar_data"
    /\ Len(lastCall.input) = 2
    /\ lastCall.input[1].device = [ranges |-> <<2, 0>>, max_range |-> 2, raises |-> "none"]
    /\ lastCall.input[2].device = [ranges |-> <<1, 0>>, max_range |-> 2, raises |-> "none"]
    /\ lastCall.result.min_distances[lastCall.input[1].name] = 0
    /\ lastCall.result.obstacle_count = 2

\* The colour the priority rules give for an RGB triple (in tenths): the first
\* rule of the four whose condition holds.
RuleHolds(rule, rgb) ==
    CASE rule = 1 -> rgb[1] > 5 /\ rgb[2] < 5
      [] rule = 2 -> rgb[2] > 5 /\ rgb[1] < 5
      [] rule = 3 -> rgb[3] > 5
      [] rule = 4 -> TRUE

RuleColor == <<"red", "green", "blue", "unknown">>

FirstRule(rgb) ==
    CHOOSE rule \in 1..4 :
        RuleHolds(rule, rgb) /\ \A earlier \in 1..(rule - 1) : ~RuleHolds(earlier, rgb)

\* C21: every object collect_recognized_objects reports carries the colour of
\* the first rule that holds for its RGB triple, in the order red (R>0.5 and
\* G<0.5), green (G>0.5 and R<0.5), blue (B>0.5), unknown; (0.9,0.1,0.1) is red,
\* (0.1,0.9,0.1) green, (0.1,0.1,0.9) blue and (0.3,0.3,0.3) unknown.
C21_ColorClassification ==
    lastCall.fn = "collect_recognized_objects" =>
        /\ \A i \in 1..Len(lastCall.result) :
               lastCall.result[i].color = RuleColor[FirstRule(lastCall.input.objects[i].colors)]
        /\ \A i \in 1..Len(lastCall.result) :
               LET rgb == lastCall.input.objects[i].colors
                   color == lastCall.result[i].color
               IN  /\ rgb = <<9, 1, 1>> => color = "red"
                   /\ rgb = <<1, 9, 1>> => color = "green"
                   /\ rgb = <<1, 1, 9>> => color = "blue"
                   /\ rgb = <<3, 3, 3>> => color = "unknown"

\* Two objects were classified, the first with a channel at exactly 0.5 and red
\* and green both high enough for neither of the first two rules.
C21_Witness ==
    /\ lastCall.fn = "collect_recognized_objects"
    /\ Len(lastCall.result) = 2
    /\ lastCall.input.objects[1].colors = <<9, 5, 9>>
    /\ lastCall.result[1].color = "blue"
    /\ lastCall.result[2].color = "unknown"

\* The lines of a rendered grid: the text split at its newlines.
RECURSIVE Lines(_, _)
Lines(text, line) ==
    IF Len(text) = 0 THEN <<line>>
    ELSE IF Head(text) = "\n" THEN <<line>> \o Lines(Tail(text), <<>>)
    ELSE Lines(Tail(text), Append(line, Head(text)))

\* The 3x3 grid that is FREE except for an OBSTACLE at (1,1), rendered at full
\* resolution with the robot in cell (0,0).
ExampleRendering ==
    /\ lastCall.fn = "generate_grid_ascii"
    /\ lastCall.input = [grid |-> Grid(3, 3, <<1, 1>>, "OBSTACLE"),
                         robot_cell |-> <<0, 0>>, scale |-> 1]

\* C22 as stated: the example rendering has the robot marker in the top row of
\* the output (the row for y=2), at column 0.
C22_MarkerInTopRow ==
    ExampleRendering => Lines(lastCall.result, <<>>)[1][1] = "R"

\* C22: at scale 1 the rows are emitted from high Y to low Y, so the robot
\* marker of a robot in cell (x, y) is at column x of output row height-1-y; the
\* example rendering has it in the last row (the row for y=0), at column 0, and
\* its top row (the row for y=2) has no marker.
C22_MarkerRow ==
    /\ (lastCall.fn = "generate_grid_ascii" /\ lastCall.input.scale = 1
            /\ lastCall.input.robot_cell # NoCell) =>
           LET lines == Lines(lastCall.result, <<>>)
               height == lastCall.input.grid.height
               cell == lastCall.input.robot_cell
           IN  /\ Len(lines) = height
               /\ \A r \in 1..height : \A c \in 1..Len(lines[r]) :
                      lines[r][c] = "R" <=> (r = height - cell[2] /\ c = cell[1] + 1)
    /\ ExampleRendering =>
           Lines(lastCall.result, <<>>) = << <<".", ".", ".">>, <<".", "#", ".">>,
                                             <<"R", ".", ".">> >>

C22_Witness ==
    /\ ExampleRendering
    /\ Lines(lastCall.result, <<>>)[3][1] = "R"

\* The number of robot markers in a rendered grid.
RECURSIVE Markers(_)
Markers(text) ==
    IF Len(text) = 0 THEN 0
    ELSE (IF Head(text) = "R" THEN 1 ELSE 0) + Markers(Tail(text))

\* The symbol table of the renderer.
Symbol(state) ==
    CASE state = "OBSTACLE" -> "#"
      [] state = "FREE" -> "."
      [] state = "BOX" -> "B"
      [] state = "CUBE" -> "C"
      [] OTHER -> "?"

\* C28: a rendering with the robot in a cell of the grid contains exactly one
\* robot marker, for every scale >= 1, and every other character is the symbol
\* of the cell it samples.
C28_MarkerAlwaysRendered ==
    (lastCall.fn = "generate_grid_ascii" /\ lastCall.input.robot_cell # NoCell) =>
        LET lines == Lines(lastCall.result, <<>>)
            grid == lastCall.input.grid
            scale == lastCall.input.scale
        IN  /\ Markers(lastCall.result) = 1
            /\ \A r \in 1..Len(lines) : \A c \in 1..Len(lines[r]) :
                   lines[r][c] # "R" =>
                       lines[r][c] = Symbol(GridGet(grid, (c - 1) * scale,
                                                    (grid.height - 1) - (r - 1) * scale))

\* The times fed to the detector so far and what the calls returned.
TimesFed == [i \in 1..Len(detector.log) |-> detector.log[i].time]
Flagged == [i \in 1..Len(detector.log) |-> detector.log[i].returned]

\* C23: check(t) returns true exactly when t is below the tracked time minus
\* the tolerance (0.1) and then leaves the tracked time at zero; otherwise it
\* returns false and leaves the tracked time at t.  A fresh detector fed 1.0,
\* 2.0, 3.0, 0.5 flags a reload on the fourth call only.
C23_ReloadDetection ==
    /\ \A i \in 1..Len(detector.log) :
           LET before == IF i = 1 THEN 0 ELSE detector.log[i - 1].last_time
               call == detector.log[i]
           IN  /\ call.returned <=> (call.time + 1 < before)
               /\ call.last_time = IF call.returned THEN 0 ELSE call.time
    /\ detector.last_time =
           IF detector.log = <<>> THEN 0 ELSE detector.log[Len(detector.log)].last_time
    /\ TimesFed = <<10, 20, 30, 5>> => Flagged = <<FALSE, FALSE, FALSE, TRUE>>

\* The example sequence was fed and its fourth call flagged the reload.
C23_Witness ==
    /\ TimesFed = <<10, 20, 30, 5>>
    /\ Flagged[4]
    /\ detector.last_time = 0

\* The adjacent pairs of a mode sequence, differing or not.
AdjacentPairs(modes) ==
    [i \in 1..(IF Len(modes) = 0 THEN 0 ELSE Len(modes) - 1) |->
        [from |-> modes[i], to |-> modes[i + 1]]]

Differs(pair) == pair.from # pair.to

\* C24: the transition list of a monitoring run holds, in order, one entry for
\* every adjacent pair of samples whose modes differ and nothing else; the
\* samples search, search, approach, approach, deliver give search->approach,
\* approach->deliver.
C24_Transitions ==
    (monitor.pc = "done" /\ ~monitor.report.no_data) =>
        /\ monitor.report.transitions = SelectSeq(AdjacentPairs(monitor.samples), Differs)
        /\ monitor.samples = <<"search", "search", "approach", "approach", "deliver">> =>
               monitor.report.transitions = <<[from |-> "search", to |-> "approach"],
                                              [from |-> "approach", to |-> "deliver"]>>

C24_Witness ==
    /\ monitor.pc = "done"
    /\ monitor.samples = <<"search", "search", "approach", "approach", "deliver">>
    /\ Len(monitor.report.transitions) = 2

\* C25: while every push asks for the same capacity N >= 1, the frame directory
\* never holds more than N frame files, the state between the write of a frame
\* and the sweep that follows it included.  (Stated for the PNG path without
\* failed writes or unlinks; the raw path is the subject of C11.)
C25_AtMostNFrames ==
    (pilAvailable /\ ~frameFaults) =>
        \A N \in 1..MaxCapacity : capacities = {N} => Cardinality(cameraDir) <= N

\* C26: when a push has completed, the frame file it wrote is in the frame
\* directory and is none of the files its sweep removed, also when the push
\* follows a restart that left frame files of the previous lifetime behind.
\* (Stated for pushes of one capacity without failed writes or unlinks.)
C26_NewestSurvives ==
    (pusher.pc = "idle" /\ pusher.wrote # {} /\ ~frameFaults
         /\ Cardinality(capacities) = 1) =>
        /\ pusher.wrote \subseteq cameraDir
        /\ pusher.wrote \cap pusher.removed = {}

\* C27: once the last command the consumer sent is complete in the file and the
\* producer, which has not restarted, has called process_commands since, that
\* command has been dispatched exactly once, whatever timestamp the sender's
\* clock gave it.  (No receive after that changes anything, so a command not
\* dispatched by then never is.)
C27_EventualDispatch ==
    (/\ restarts = 0 /\ externalWrites = 0
     /\ sends >= 1 /\ sender.pc = "idle"
     /\ commandsFile.kind = "object" /\ commandsFile.id = sends
     /\ recvSinceWrite >= 1) =>
        dispatchedLife[sends] = 1

====
